---- MODULE Spec2Model ----
(***************************************************************************)
(* Model of wgengine/magicsock/magicsock_linux.go: the raw-socket disco    *)
(* capture path (Conn.listenRawDisco, Conn.receiveDisco, setBPF and the    *)
(* two BPF filter programs).                                               *)
(*                                                                         *)
(* Packets are sequences of bytes (0..255).  A 32-bit BPF word is the pair *)
(* <<high 16 bits, low 16 bits>>.                                          *)
(***************************************************************************)
EXTENDS Integers, Sequences, FiniteSets, TLC

(***************************************************************************)
(* Bounds of the model.                                                    *)
(***************************************************************************)
\* number of calls of Conn.listenRawDisco in one behaviour
MaxCalls == 2
\* number of external packet arrivals in one behaviour
MaxDeliver == 2
\* number of times the collaborator rebinds a port in one behaviour
MaxRebind == 1

(***************************************************************************)
(* Program constants.                                                      *)
(***************************************************************************)
udpHeaderSize == 8

\* the calls of Conn.listenRawDisco made in one behaviour
Calls == 1..MaxCalls

\* the six bytes under "Disco magic" in testDiscoPacket
discoMagic == <<84, 83, 240, 159, 146, 172>>
\* discoMagic1 = 0x5453f09f as a 32-bit word, discoMagic2 = 0x92ac
discoMagic1 == <<84 * 256 + 83, 240 * 256 + 159>>
discoMagic2 == <<0, 146 * 256 + 172>>

Zeros(k) == [i \in 1..k |-> 0]

\* marker, zero sender key (32 bytes), zero nonce (24 bytes)
testDiscoPacket == discoMagic \o Zeros(32) \o Zeros(24)

(***************************************************************************)
(* The BPF virtual machine and the two filter programs.                    *)
(***************************************************************************)
RECURSIVE BitAnd(_, _)
BitAnd(a, b) ==
    IF a = 0 \/ b = 0 THEN 0
    ELSE (a % 2) * (b % 2) + 2 * BitAnd(a \div 2, b \div 2)

\* bpf.LoadAbsolute / bpf.LoadIndirect: Size bytes at offset off, big-endian;
\* <<>> when the load runs past the end of the packet
Load(pkt, off, size) ==
    IF off + size > Len(pkt) THEN <<>>
    ELSE IF size = 4
         THEN <<pkt[off + 1] * 256 + pkt[off + 2], pkt[off + 3] * 256 + pkt[off + 4]>>
         ELSE <<0, pkt[off + 1] * 256 + pkt[off + 2]>>

\* (mutation) the fragment-offset test does not skip to the drop
magicsockFilterV4NoOffsetTest == <<
    [op |-> "LoadAbsolute", off |-> 6, size |-> 2],
    [op |-> "JumpBitsSet", val |-> 8192, skipTrue |-> 7, skipFalse |-> 0],
    [op |-> "JumpBitsSet", val |-> 8191, skipTrue |-> 0, skipFalse |-> 0],
    [op |-> "LoadMemShift", off |-> 0],
    [op |-> "LoadIndirect", off |-> udpHeaderSize, size |-> 4],
    [op |-> "JumpEqual", val |-> discoMagic1, skipTrue |-> 0, skipFalse |-> 3],
    [op |-> "LoadIndirect", off |-> udpHeaderSize + 4, size |-> 2],
    [op |-> "JumpEqual", val |-> discoMagic2, skipTrue |-> 0, skipFalse |-> 1],
    [op |-> "RetConstant", val |-> <<65535, 65535>>],
    [op |-> "RetConstant", val |-> <<0, 0>>] >>

magicsockFilterV4 == <<
    [op |-> "LoadAbsolute", off |-> 6, size |-> 2],
    [op |-> "JumpBitsSet", val |-> 8192, skipTrue |-> 7, skipFalse |-> 0],
    [op |-> "JumpBitsSet", val |-> 8191, skipTrue |-> 6, skipFalse |-> 0],
    [op |-> "LoadMemShift", off |-> 0],
    [op |-> "LoadIndirect", off |-> udpHeaderSize, size |-> 4],
    [op |-> "JumpEqual", val |-> discoMagic1, skipTrue |-> 0, skipFalse |-> 3],
    [op |-> "LoadIndirect", off |-> udpHeaderSize + 4, size |-> 2],
    [op |-> "JumpEqual", val |-> discoMagic2, skipTrue |-> 0, skipFalse |-> 1],
    [op |-> "RetConstant", val |-> <<65535, 65535>>],
    [op |-> "RetConstant", val |-> <<0, 0>>] >>

\* (mutation) the second comparison falls through to the accept on a mismatch
magicsockFilterV6PartialMatch == <<
    [op |-> "LoadAbsolute", off |-> udpHeaderSize, size |-> 4],
    [op |-> "JumpEqual", val |-> discoMagic1, skipTrue |-> 0, skipFalse |-> 3],
    [op |-> "LoadAbsolute", off |-> udpHeaderSize + 4, size |-> 2],
    [op |-> "JumpEqual", val |-> discoMagic2, skipTrue |-> 0, skipFalse |-> 0],
    [op |-> "RetConstant", val |-> <<65535, 65535>>],
    [op |-> "RetConstant", val |-> <<0, 0>>] >>

magicsockFilterV6 == <<
    [op |-> "LoadAbsolute", off |-> udpHeaderSize, size |-> 4],
    [op |-> "JumpEqual", val |-> discoMagic1, skipTrue |-> 0, skipFalse |-> 3],
    [op |-> "LoadAbsolute", off |-> udpHeaderSize + 4, size |-> 2],
    [op |-> "JumpEqual", val |-> discoMagic2, skipTrue |-> 0, skipFalse |-> 1],
    [op |-> "RetConstant", val |-> <<65535, 65535>>],
    [op |-> "RetConstant", val |-> <<0, 0>>] >>

\* The kernel's evaluation of an attached program on one packet: the word
\* the program returns; a load past the end of the packet returns 0.
RECURSIVE RunFilter(_, _, _, _, _)
RunFilter(prog, pkt, i, A, X) ==
    LET ins == prog[i] IN
    CASE ins.op = "RetConstant" -> ins.val
      [] ins.op = "LoadAbsolute" ->
            LET v == Load(pkt, ins.off, ins.size) IN
            IF v = <<>> THEN <<0, 0>> ELSE RunFilter(prog, pkt, i + 1, v, X)
      [] ins.op = "LoadIndirect" ->
            LET v == Load(pkt, X + ins.off, ins.size) IN
            IF v = <<>> THEN <<0, 0>> ELSE RunFilter(prog, pkt, i + 1, v, X)
      [] ins.op = "LoadMemShift" ->
            IF ins.off + 1 > Len(pkt) THEN <<0, 0>>
            ELSE RunFilter(prog, pkt, i + 1, A, 4 * (pkt[ins.off + 1] % 16))
      [] ins.op = "JumpBitsSet" ->
            RunFilter(prog, pkt,
                      i + 1 + (IF BitAnd(A[2], ins.val) # 0 THEN ins.skipTrue ELSE ins.skipFalse),
                      A, X)
      [] ins.op = "JumpEqual" ->
            RunFilter(prog, pkt,
                      i + 1 + (IF A = ins.val THEN ins.skipTrue ELSE ins.skipFalse),
                      A, X)

FilterAccepts(prog, pkt) == RunFilter(prog, pkt, 1, <<0, 0>>, 0) # <<0, 0>>

\* bpf.Assemble: every jump must land inside the program
Assemble(prog) ==
    \A i \in 1..Len(prog) :
        prog[i].op \in {"JumpBitsSet", "JumpEqual"} =>
            /\ i + 1 + prog[i].skipTrue <= Len(prog)
            /\ i + 1 + prog[i].skipFalse <= Len(prog)

(***************************************************************************)
(* Packets on the wire and what a raw socket returns for them.             *)
(***************************************************************************)
Families == {"ip4", "ip6"}

\* values of Conn.pconn4.Port() / Conn.pconn6.Port(); 0 means not bound
Ports == {0, 1, 4000}

\* binary.BigEndian.Uint16
BigEndianUint16(b) == b[1] * 256 + b[2]

\* a UDP datagram: source port, destination port, length, checksum, payload
UDP(srcPort, dstPort, payload) ==
    << srcPort \div 256, srcPort % 256, dstPort \div 256, dstPort % 256,
       (udpHeaderSize + Len(payload)) \div 256, (udpHeaderSize + Len(payload)) % 256,
       0, 0 >> \o payload

\* an IPv4 header of ihl 32-bit words with the given flags/fragment-offset field
IPv4Header(ihl, frag) ==
    [i \in 1..(4 * ihl) |->
        CASE i = 1 -> 64 + ihl
          [] i = 7 -> frag \div 256
          [] i = 8 -> frag % 256
          [] i = 10 -> 17
          [] OTHER -> 0]

Addr4 == <<127, 0, 0, 1>>
Addr16 == Zeros(15) \o <<1>>

\* a packet arriving for a raw socket of a family: the IPv4 header (empty
\* for ip6, where the socket sees the UDP header onwards), the UDP datagram
\* and the sender address the kernel reports
Pkt(family, udp, src) ==
    [ip |-> IF family = "ip4" THEN IPv4Header(5, 0) ELSE <<>>, udp |-> udp, src |-> src]

\* what the attached program is run on
FilterInput(p) == p.ip \o p.udp

\* packets other hosts send
Pool(family) ==
    { Pkt(family, <<1, 2, 3>>, Addr4),
      Pkt(family, UDP(5000, 4000, discoMagic \o <<170, 187>>), Addr4),
      Pkt(family, UDP(5000, 4000, discoMagic \o <<170, 187>>), Addr16),
      Pkt(family, UDP(5000, 4000, discoMagic \o <<170, 187>>), <<>>),
      Pkt(family, UDP(5000, 0, discoMagic \o <<170, 187>>), Addr4) }

\* two more packets any host can send: a datagram for the bound port whose
\* payload is byte for byte that of the test packet, and one for the bound
\* port without the marker
Forged(family) ==
    { Pkt(family, UDP(5000, 4000, testDiscoPacket), Addr4),
      Pkt(family, UDP(5000, 4000, <<1, 2, 3, 4, 5, 6, 7>>), Addr4) }

\* the packet the self-test sends to loopback port 1 from its throwaway
\* socket (bound to an ephemeral port)
TestPkt(family) ==
    Pkt(family, UDP(40000, 1, testDiscoPacket), IF family = "ip4" THEN Addr4 ELSE Addr16)

\* netip.AddrFromSlice: 4 bytes give an IPv4 address, 16 bytes an IPv6
\* address, any other length is not an address
AddrFromSlice(s) == [ok |-> Len(s) \in {4, 16}, is4 |-> Len(s) = 4, ip |-> s]

\* the program listenRawDisco picks for a family
Prog(family) == IF family = "ip4" THEN magicsockFilterV4 ELSE magicsockFilterV6

\* values of the IPv4 flags / fragment-offset field: none, don't-fragment,
\* the reserved bit, more-fragments, a last fragment, middle fragments
FragFields == {0, 16384, 32768, 8192, 1, 8191, 8192 + 185, 16384 + 8192}

\* IPv4 header lengths in 32-bit words: no options, one option word, the most
HeaderWords == {5, 6, 15}

\* UDP payloads: the marker alone and followed by data, the test packet,
\* the marker cut short, no payload, the marker with one byte changed
Payloads ==
    { discoMagic, discoMagic \o <<170, 187>>, testDiscoPacket,
      SubSeq(discoMagic, 1, 4), SubSeq(discoMagic, 1, 5), <<>> }
    \cup { [discoMagic EXCEPT ![k] = 255 - @] \o <<170, 187>> : k \in 1..Len(discoMagic) }

\* the buffers a filter program of a family is evaluated on: for ip4 the
\* whole IP packet (and two cut inside the header), for ip6 the UDP header
\* onwards
FilterInputs(family) ==
    IF family = "ip4"
    THEN { IPv4Header(w, f) \o UDP(5000, 4000, pl) :
              w \in HeaderWords, f \in FragFields, pl \in Payloads }
         \cup { SubSeq(IPv4Header(5, 0), 1, 7), SubSeq(IPv4Header(5, 8192), 1, 6) }
    ELSE { UDP(5000, 4000, pl) : pl \in Payloads } \cup { <<1, 2, 3>> }

\* setBPF: the error it returns given the results of SyscallConn, of
\* sc.Control and of the setsockopt inside the Control callback ("nil" is
\* no error).  On a setsockopt error it returns err, which is nil there.
setBPF(scErr, ctlErr, setErr) ==
    IF scErr # "nil" THEN scErr
    ELSE IF ctlErr # "nil" THEN ctlErr
    ELSE IF setErr # "nil" THEN ctlErr
    ELSE "nil"

\* the outcomes of the three steps of setBPF
BPFOutcomes ==
    { <<"nil", "nil", "nil">>, <<"EBADF", "nil", "nil">>,
      <<"nil", "EBADF", "nil">>, <<"nil", "nil", "EPERM">> }

\* (mutation) a self-test that compares the marker only
SelfTestMatchMarker(buf) == SubSeq(buf, udpHeaderSize + 1, udpHeaderSize + 6) = discoMagic

\* bytes.Equal(buf[udpHeaderSize:n], testDiscoPacket)
SelfTestMatch(buf) == SubSeq(buf, udpHeaderSize + 1, Len(buf)) = testDiscoPacket

\* (mutation) the deadline is moved forward before every read of the self-test
DeadlineNeverPasses(s) == FALSE

\* a read returns a timeout error once the deadline set on the socket has passed
DeadlinePassed(s) == s.deadline = "expired"

\* (mutation) the deadline of the self-test is left on the socket
KeepReadDeadline(s) == s

\* pc.SetReadDeadline(time.Time{})
ClearReadDeadline(s) == [s EXCEPT !.deadline = "none"]

\* pc.Close(): the kernel frees the socket with its filter and its queue
CloseSocket(s) == [state |-> "closed", filter |-> FALSE, queue |-> <<>>, deadline |-> "none"]

\* buf[from:to] of the 1500-byte read buffer holding a read of Len(buf)
\* bytes (offsets from 0, to exclusive); the bytes past the read are 0
Slice(buf, from, to) ==
    [i \in 1..(to - from) |-> IF from + i <= Len(buf) THEN buf[from + i] ELSE 0]

\* (mutation) the closed error is not told apart from other read errors
NeverErrClosed(sockState) == FALSE

\* errors.Is(err, net.ErrClosed): the read failed because pc was closed
IsErrClosed(sockState) == sockState = "closed"

\* (mutation) the length check is missing
NeverTooSmall(n) == FALSE

\* if n < udpHeaderSize { continue }
TooSmall(n) == n < udpHeaderSize

\* (mutation) port 0 is not reported
NeverUnexpectedPort(dstPort) == FALSE

\* if dstPort == 0 { c.logf("[unexpected] ...") }: a log, and nothing else
UnexpectedPort(dstPort) == dstPort = 0

\* (mutation) the acceptPort == 0 check is missing
PortMismatchOnly(dstPort, acceptPort) == dstPort # acceptPort

\* the two port checks that end an iteration: the family is not bound
\* (acceptPort == 0), or the packet is for another port
PortDrops(dstPort, acceptPort) == acceptPort = 0 \/ dstPort # acceptPort

\* (mutation) the iteration does not end with the call: the handler is
\* called again for the same packet
CallHandlerAgain(r) == r

\* (mutation) go c.handleDiscoMessage(...): the loop does not wait
CallHandlerAsync(r) == [r EXCEPT !.pc = "read"]

\* c.handleDiscoMessage(...) is an ordinary call: the loop waits for it
CallHandler(r) == [r EXCEPT !.pc = "dispatch"]

\* (mutation) the counter chosen by the family of the raw socket
CountsBySocket(srcIP, isIPV6) == ~isIPV6

\* the counter receiveDisco increments for a parsed source address
CountsAsIPv4(srcIP, isIPV6) == srcIP.is4

\* (mutation) the IPv4 port is consulted for both families
AcceptPortV4(bound, isIPV6) == bound["ip4"]

\* the bound port receiveDisco compares with
AcceptPort(bound, isIPV6) == IF isIPV6 THEN bound["ip6"] ELSE bound["ip4"]

(***************************************************************************)
(* State.                                                                  *)
(***************************************************************************)
VARIABLES
    lr,          \* each call of listenRawDisco: its position, family and result
    pconn,       \* the raw socket pc of each call
    tc,          \* the throwaway test socket tc of each call
    rd,          \* the receiveDisco goroutine of each call
    boundPort,   \* Conn.pconn4.Port() and Conn.pconn6.Port()
    metricRecvDiscoPacketIPv4,
    metricRecvDiscoPacketIPv6,
    reads,       \* history: the successful reads of each receiveDisco
    dispatched,  \* history: the handleDiscoMessage calls of each receiveDisco
    returned,    \* history: how many handleDiscoMessage calls have returned
    logs,        \* history: the logf / dlogf calls of each receiveDisco, by kind
    probeSeen,   \* history: the self-test of the call read the test packet
    delivered,   \* external packet arrivals so far
    rebinds,     \* port changes so far
    quota,       \* the calls the owner makes and the packets other hosts send
    given,       \* history: the argument and the process settings each call was made with
    closedAt,    \* history: the reads and handler calls of a loop when Close returned
    filt         \* the last evaluation of a filter program on a buffer

vars == << lr, pconn, tc, rd, boundPort, metricRecvDiscoPacketIPv4,
           metricRecvDiscoPacketIPv6, reads, dispatched, returned, logs,
           probeSeen, delivered, rebinds, quota, given, closedAt, filt >>

NoSocket == [state |-> "none", filter |-> FALSE, queue |-> <<>>, deadline |-> "none"]
NoLoop == [state |-> "none", pc |-> "read", isIPV6 |-> FALSE, buf |-> <<>>,
           src |-> <<>>, dstPort |-> 0, acceptPort |-> 0]
NoLogs == [failed |-> 0, port0 |-> 0, notIP |-> 0, dropped |-> 0]
NotCalled == [family |-> "", disabled |-> FALSE, useSocketMark |-> FALSE]
NotClosed == [reads |-> -1, dispatched |-> -1]
NoVerdict == [family |-> "", buf |-> <<>>, out |-> <<>>]

Start(calls, packets, forged) ==
    /\ quota = [calls |-> calls, packets |-> packets, forged |-> forged]
    /\ lr = [h \in Calls |-> [pc |-> "idle", family |-> "", ret |-> "none"]]
    /\ pconn = [h \in Calls |-> NoSocket]
    /\ tc = [h \in Calls |-> "none"]
    /\ rd = [h \in Calls |-> NoLoop]
    /\ boundPort = [f \in Families |-> 4000]
    /\ metricRecvDiscoPacketIPv4 = 0
    /\ metricRecvDiscoPacketIPv6 = 0
    /\ reads = [h \in Calls |-> <<>>]
    /\ dispatched = [h \in Calls |-> <<>>]
    /\ returned = [h \in Calls |-> 0]
    /\ logs = [h \in Calls |-> NoLogs]
    /\ probeSeen = [h \in Calls |-> FALSE]
    /\ delivered = 0
    /\ rebinds = 0
    /\ given = [h \in Calls |-> NotCalled]
    /\ closedAt = [h \in Calls |-> NotClosed]
    /\ filt = NoVerdict

\* one call of listenRawDisco and the handle it returns
Init == Start(1, MaxDeliver, FALSE)

\* the calls of one Conn, one after the other, on a quiet network
InitPair == Start(MaxCalls, 1, FALSE)

\* one call, on a network where the packets of Forged are sent as well
InitForged == Start(1, MaxDeliver, TRUE)

\* the kernel hands packet p of a family to every open raw socket of that
\* family whose filter, if one is attached, accepts it
Arrive(socks, family, p) ==
    [h \in Calls |->
        IF /\ socks[h].state = "open"
           /\ lr[h].family = family
           /\ (socks[h].filter => FilterAccepts(Prog(family), FilterInput(p)))
        THEN [socks[h] EXCEPT !.queue = Append(@, p)]
        ELSE socks[h]]

\* (mutation) an error return that forgets pc.Close()
FailLeaking(h, err, socks) ==
    /\ lr' = [lr EXCEPT ![h].pc = "returned", ![h].ret = err]
    /\ pconn' = socks
    /\ tc' = [tc EXCEPT ![h] = IF @ = "open" THEN "closed" ELSE @]

\* listenRawDisco returns err, closing what it opened
Fail(h, err, socks) ==
    /\ lr' = [lr EXCEPT ![h].pc = "returned", ![h].ret = err]
    /\ pconn' = [socks EXCEPT ![h] = IF @.state = "open" THEN CloseSocket(@) ELSE @]
    /\ tc' = [tc EXCEPT ![h] = IF @ = "open" THEN "closed" ELSE @]

history == << reads, dispatched, returned, logs >>
metrics == << metricRecvDiscoPacketIPv4, metricRecvDiscoPacketIPv6 >>

(***************************************************************************)
(* Conn.listenRawDisco, step by step.                                      *)
(***************************************************************************)
\* (mutation) debugDisableRawDisco() is not consulted
EntryErrorNoKnob(family, disabled, useSocketMark) ==
    IF ~useSocketMark THEN "SO_MARK unavailable"
    ELSE IF family \notin Families THEN "unsupported address family"
    ELSE "nil"

\* (mutation) the family switch has no default case
EntryErrorAnyFamily(family, disabled, useSocketMark) ==
    IF disabled THEN "disabled by debug flag"
    ELSE IF ~useSocketMark THEN "SO_MARK unavailable"
    ELSE "nil"

\* the error of the checks at entry, in their order: the debug knob, the
\* SO_MARK check, the family switch ("nil" when all three pass)
EntryError(family, disabled, useSocketMark) ==
    IF disabled THEN "disabled by debug flag"
    ELSE IF ~useSocketMark THEN "SO_MARK unavailable"
    ELSE IF family \notin Families THEN "unsupported address family"
    ELSE "nil"

\* entry: the debug knob, the SO_MARK check, the family switch, bpf.Assemble.
\* The calls are made one after the other by the one goroutine that owns
\* the Conn.
Call(h, family, disabled, useSocketMark) ==
    /\ lr[h].pc = "idle"
    /\ h <= quota.calls
    /\ h > 1 => lr[h - 1].pc = "returned"
    /\ given' = [given EXCEPT ![h].family = family, ![h].disabled = disabled,
                              ![h].useSocketMark = useSocketMark]
    /\ LET err == EntryError(family, disabled, useSocketMark)
       IN IF err # "nil"
          THEN lr' = [lr EXCEPT ![h].pc = "returned", ![h].ret = err]
          ELSE IF ~Assemble(Prog(family))
          THEN lr' = [lr EXCEPT ![h].pc = "returned", ![h].ret = "assembling filter"]
          ELSE lr' = [lr EXCEPT ![h].pc = "ListenPacket", ![h].family = family]
    /\ UNCHANGED << pconn, tc, rd, boundPort, metrics, history, probeSeen,
                    delivered, rebinds, quota, closedAt, filt >>

\* pc, err := net.ListenPacket(network, addr)
ListenPacket(h, ok) ==
    /\ lr[h].pc = "ListenPacket"
    /\ IF ok
       THEN /\ pconn' = [pconn EXCEPT ![h] = [NoSocket EXCEPT !.state = "open"]]
            /\ lr' = [lr EXCEPT ![h].pc = "setBPF"]
       ELSE /\ lr' = [lr EXCEPT ![h].pc = "returned", ![h].ret = "creating packet conn"]
            /\ UNCHANGED pconn
    /\ UNCHANGED << tc, rd, boundPort, metrics, history, probeSeen, delivered, rebinds, quota, given, closedAt, filt >>

\* if err := setBPF(pc, asm); err != nil { pc.Close(); return ... }
InstallFilter(h, outcome) ==
    /\ lr[h].pc = "setBPF"
    /\ LET err == setBPF(outcome[1], outcome[2], outcome[3])
           attached == outcome = <<"nil", "nil", "nil">>
       IN IF err # "nil"
          THEN Fail(h, "installing BPF filter", pconn)
          ELSE /\ pconn' = [pconn EXCEPT ![h].filter = attached]
               /\ lr' = [lr EXCEPT ![h].pc = "testSocket"]
               /\ UNCHANGED tc
    /\ UNCHANGED << rd, boundPort, metrics, history, probeSeen, delivered, rebinds,
                    quota, given, closedAt, filt >>

\* tc, err := net.ListenPacket("udp", ...); defer tc.Close()
TestSocket(h, ok) ==
    /\ lr[h].pc = "testSocket"
    /\ IF ok
       THEN /\ tc' = [tc EXCEPT ![h] = "open"]
            /\ lr' = [lr EXCEPT ![h].pc = "write"]
            /\ UNCHANGED pconn
       ELSE Fail(h, "creating disco test socket", pconn)
    /\ UNCHANGED << rd, boundPort, metrics, history, probeSeen, delivered, rebinds, quota, given, closedAt, filt >>

\* WriteToUDPAddrPort(testDiscoPacket, testAddr), then
\* pc.SetReadDeadline(time.Now().Add(100 * time.Millisecond)).
\* A written packet reaches the raw sockets of the family or is lost.
WriteTest(h, ok, arrives) ==
    /\ lr[h].pc = "write"
    /\ IF ok
       THEN /\ pconn' = [(IF arrives THEN Arrive(pconn, lr[h].family, TestPkt(lr[h].family))
                                     ELSE pconn)
                           EXCEPT ![h].deadline = "armed"]
            /\ lr' = [lr EXCEPT ![h].pc = "selfTest"]
            /\ UNCHANGED tc
       ELSE /\ ~arrives
            /\ Fail(h, "writing disco test packet", pconn)
    /\ UNCHANGED << rd, boundPort, metrics, history, probeSeen, delivered, rebinds, quota, given, closedAt, filt >>

\* one iteration of the self-test loop; on break, the deadline is cleared,
\* receiveDisco is started and pc is returned (the deferred tc.Close runs)
SelfTestRead(h, ioerr) ==
    /\ lr[h].pc = "selfTest"
    /\ IF ioerr \/ DeadlinePassed(pconn[h])
       THEN /\ Fail(h, "reading during raw disco self-test", pconn)
            /\ UNCHANGED << rd, probeSeen >>
       ELSE /\ pconn[h].queue # <<>>
            /\ LET buf == Head(pconn[h].queue).udp
                   rest == [pconn[h] EXCEPT !.queue = Tail(@)]
               IN IF TooSmall(Len(buf)) \/ ~SelfTestMatch(buf)
                  THEN /\ pconn' = [pconn EXCEPT ![h] = rest]
                       /\ UNCHANGED << lr, tc, rd, probeSeen >>
                  ELSE /\ pconn' = [pconn EXCEPT ![h] = ClearReadDeadline(rest)]
                       /\ probeSeen' = [probeSeen EXCEPT ![h] =
                              SubSeq(buf, udpHeaderSize + 1, Len(buf)) = testDiscoPacket]
                       /\ rd' = [rd EXCEPT ![h] = [NoLoop EXCEPT !.state = "Running",
                                                   !.isIPV6 = (lr[h].family = "ip6")]]
                       /\ lr' = [lr EXCEPT ![h].pc = "returned", ![h].ret = "ok"]
                       /\ tc' = [tc EXCEPT ![h] = "closed"]
    /\ UNCHANGED << boundPort, metrics, history, delivered, rebinds, quota, given, closedAt, filt >>

\* the 100ms deadline of a socket passes
Tick(h) ==
    /\ pconn[h].state = "open"
    /\ pconn[h].deadline = "armed"
    /\ pconn' = [pconn EXCEPT ![h].deadline = "expired"]
    /\ UNCHANGED << lr, tc, rd, boundPort, metrics, history, probeSeen, delivered, rebinds, quota, given, closedAt, filt >>

\* the caller closes the handle listenRawDisco returned
Close(h) ==
    /\ lr[h].ret = "ok"
    /\ pconn[h].state = "open"
    /\ pconn' = [pconn EXCEPT ![h] = CloseSocket(@)]
    /\ closedAt' = [closedAt EXCEPT ![h] = [reads |-> Len(reads[h]),
                                            dispatched |-> Len(dispatched[h])]]
    /\ UNCHANGED << lr, tc, rd, boundPort, metrics, history, probeSeen, delivered,
                    rebinds, quota, given, filt >>

(***************************************************************************)
(* Conn.receiveDisco, step by step.                                        *)
(***************************************************************************)
\* receiveDisco returns
Stop(h) == rd' = [rd EXCEPT ![h] = [NoLoop EXCEPT !.state = "Stopped", !.isIPV6 = rd[h].isIPV6]]

\* (mutation) a dropped packet ends the loop: return where continue stands
ContinueReturns(h) == rd' = [rd EXCEPT ![h] = [NoLoop EXCEPT !.state = "Stopped", !.isIPV6 = rd[h].isIPV6]]

\* continue: the locals of the iteration are dead, the next read overwrites them
Continue(h) == rd' = [rd EXCEPT ![h] = [NoLoop EXCEPT !.state = "Running", !.isIPV6 = rd[h].isIPV6]]

\* n, src, err := pc.ReadFrom(buf[:]) and what follows up to the read of
\* the bound port
LoopRead(h, ioerr) ==
    /\ rd[h].state = "Running"
    /\ rd[h].pc = "read"
    /\ pconn[h].state = "closed" => ~ioerr
    /\ IF IsErrClosed(pconn[h].state)
       THEN /\ Stop(h)
            /\ UNCHANGED << pconn, history >>
       ELSE IF ioerr \/ pconn[h].state = "closed" \/ pconn[h].deadline = "expired"
       THEN /\ logs' = [logs EXCEPT ![h].failed = @ + 1]
            /\ Stop(h)
            /\ UNCHANGED << pconn, reads, dispatched, returned >>
       ELSE /\ pconn[h].queue # <<>>
            /\ LET p == Head(pconn[h].queue)
                   n == Len(p.udp)
               IN /\ pconn' = [pconn EXCEPT ![h].queue = Tail(@)]
                  /\ reads' = [reads EXCEPT ![h] =
                                  Append(@, [buf |-> p.udp, src |-> p.src, snap |-> -1])]
                  /\ IF TooSmall(n)
                     THEN UNCHANGED << rd, logs >>
                     ELSE LET dstPort == BigEndianUint16(Slice(p.udp, 2, 4))
                          IN /\ rd' = [rd EXCEPT ![h].pc = "port", ![h].buf = p.udp,
                                                 ![h].src = p.src, ![h].dstPort = dstPort]
                             /\ logs' = [logs EXCEPT ![h].port0 =
                                            IF UnexpectedPort(dstPort) THEN @ + 1 ELSE @]
                  /\ UNCHANGED << dispatched, returned >>
    /\ UNCHANGED << lr, tc, boundPort, metrics, probeSeen, delivered, rebinds, quota, given, closedAt, filt >>

\* acceptPort = c.pconn6.Port() or c.pconn4.Port()
LoopPort(h) ==
    /\ rd[h].state = "Running"
    /\ rd[h].pc = "port"
    /\ LET acceptPort == AcceptPort(boundPort, rd[h].isIPV6)
       IN /\ rd' = [rd EXCEPT ![h].pc = "check", ![h].acceptPort = acceptPort]
          /\ reads' = [reads EXCEPT ![h][Len(reads[h])].snap = acceptPort]
    /\ UNCHANGED << lr, pconn, tc, boundPort, metrics, dispatched, returned, logs,
                    probeSeen, delivered, rebinds, quota, given, closedAt, filt >>

\* the two port checks, the source address, the counter and the call of
\* c.handleDiscoMessage
LoopCheck(h) ==
    /\ rd[h].state = "Running"
    /\ rd[h].pc = "check"
    /\ LET srcIP == AddrFromSlice(rd[h].src)
           srcPort == BigEndianUint16(Slice(rd[h].buf, 0, 2))
       IN IF PortDrops(rd[h].dstPort, rd[h].acceptPort)
          THEN /\ logs' = [logs EXCEPT ![h].dropped = @ + 1]
               /\ Continue(h)
               /\ UNCHANGED << metrics, dispatched >>
          ELSE IF ~srcIP.ok
          THEN /\ logs' = [logs EXCEPT ![h].notIP = @ + 1]
               /\ Continue(h)
               /\ UNCHANGED << metrics, dispatched >>
          ELSE /\ IF CountsAsIPv4(srcIP, rd[h].isIPV6)
                  THEN /\ metricRecvDiscoPacketIPv4' = metricRecvDiscoPacketIPv4 + 1
                       /\ UNCHANGED metricRecvDiscoPacketIPv6
                  ELSE /\ metricRecvDiscoPacketIPv6' = metricRecvDiscoPacketIPv6 + 1
                       /\ UNCHANGED metricRecvDiscoPacketIPv4
               /\ dispatched' = [dispatched EXCEPT ![h] = Append(@,
                      [payload |-> Slice(rd[h].buf, udpHeaderSize, Len(rd[h].buf)),
                       srcIP |-> srcIP.ip, srcPort |-> srcPort, key |-> "zero",
                       read |-> Len(reads[h])])]
               /\ rd' = [rd EXCEPT ![h] = CallHandler(@)]
               /\ UNCHANGED logs
    /\ UNCHANGED << lr, pconn, tc, boundPort, reads, returned, probeSeen, delivered, rebinds, quota, given, closedAt, filt >>

\* c.handleDiscoMessage returns
DispatchReturn(h) ==
    /\ rd[h].state = "Running"
    /\ rd[h].pc = "dispatch"
    /\ Continue(h)
    /\ returned' = [returned EXCEPT ![h] = @ + 1]
    /\ UNCHANGED << lr, pconn, tc, boundPort, metrics, reads, dispatched, logs,
                    probeSeen, delivered, rebinds, quota, given, closedAt, filt >>

(***************************************************************************)
(* The surroundings: the network and the owner of the bound ports.         *)
(***************************************************************************)
\* a packet from another host arrives
Deliver(family, p) ==
    /\ delivered < quota.packets
    /\ p \in Pool(family) \/ (quota.forged /\ p \in Forged(family))
    /\ pconn' = Arrive(pconn, family, p)
    /\ pconn' # pconn
    /\ delivered' = delivered + 1
    /\ UNCHANGED << lr, tc, rd, boundPort, metrics, history, probeSeen, rebinds, quota, given, closedAt, filt >>

\* the collaborator rebinds (or unbinds) the UDP socket of a family
Rebind(family, port) ==
    /\ rebinds < MaxRebind
    /\ port # boundPort[family]
    /\ boundPort' = [boundPort EXCEPT ![family] = port]
    /\ rebinds' = rebinds + 1
    /\ UNCHANGED << lr, pconn, tc, rd, metrics, history, probeSeen, delivered, quota, given, closedAt, filt >>

Next ==
    \/ \E h \in Calls, family \in Families \cup {"ip5"}, d, m \in BOOLEAN : Call(h, family, d, m)
    \/ \E h \in Calls, ok \in BOOLEAN : ListenPacket(h, ok)
    \/ \E h \in Calls, o \in BPFOutcomes : InstallFilter(h, o)
    \/ \E h \in Calls, ok \in BOOLEAN : TestSocket(h, ok)
    \/ \E h \in Calls, ok, arrives \in BOOLEAN : WriteTest(h, ok, arrives)
    \/ \E h \in Calls, ioerr \in BOOLEAN : SelfTestRead(h, ioerr)
    \/ \E h \in Calls : Tick(h)
    \/ \E h \in Calls : Close(h)
    \/ \E h \in Calls, ioerr \in BOOLEAN : LoopRead(h, ioerr)
    \/ \E h \in Calls : LoopPort(h)
    \/ \E h \in Calls : LoopCheck(h)
    \/ \E h \in Calls : DispatchReturn(h)
    \/ \E family \in Families : \E p \in Pool(family) \cup Forged(family) : Deliver(family, p)
    \/ \E family \in Families, port \in Ports : Rebind(family, port)

Spec == Init /\ [][Next]_vars

SpecPair == InitPair /\ [][Next]_vars

SpecForged == InitForged /\ [][Next]_vars

\* the steps a running receiveDisco takes by itself: a read that returns
\* (a packet or the closed error), the port lookup, the checks, and the
\* return of the handler
LoopProgress(h) ==
    LoopRead(h, FALSE) \/ LoopPort(h) \/ LoopCheck(h) \/ DispatchReturn(h)

\* the Go scheduler runs every goroutine that can run, and handlers return
LiveSpec == Init /\ [][Next]_vars /\ \A h \in Calls : WF_vars(LoopProgress(h))

\* time passes, so an armed deadline expires, and the goroutine in
\* listenRawDisco is scheduled, so a read of the self-test that can return
\* (a packet is queued or the deadline has passed) does return
SelfTestSpec ==
    Init /\ [][Next]_vars
         /\ \A h \in Calls : WF_vars(Tick(h)) /\ WF_vars(SelfTestRead(h, FALSE))

(***************************************************************************)
(* The filter programs by themselves.                                      *)
(***************************************************************************)
\* the kernel runs the program of a family on one buffer
Evaluate(family, buf) ==
    /\ filt' = [family |-> family, buf |-> buf,
                out |-> RunFilter(Prog(family), buf, 1, <<0, 0>>, 0)]
    /\ UNCHANGED << lr, pconn, tc, rd, boundPort, metrics, history, probeSeen,
                    delivered, rebinds, quota, given, closedAt >>

FilterNext == \E family \in Families : \E buf \in FilterInputs(family) : Evaluate(family, buf)

\* no call is made: only the programs run, on every buffer of FilterInputs
FilterSpec == Start(0, 0, FALSE) /\ [][FilterNext]_vars

(***************************************************************************)
(* Properties.                                                             *)
(***************************************************************************)
\* read i of loop h has been fully handled
Complete(h, i) == i < Len(reads[h]) \/ rd[h].pc \in {"read", "dispatch"}

\* the handleDiscoMessage calls loop h made for its read i
CallsFor(h, i) == {j \in 1..Len(dispatched[h]) : dispatched[h][j].read = i}

\* all handleDiscoMessage calls, as <<loop, index>>
AllCalls == UNION {{<<h, j>> : j \in 1..Len(dispatched[h])} : h \in Calls}

\* C1: a read of at least 8 bytes whose destination port (bytes 2-3,
\* big-endian) equals the non-zero bound port read in that iteration and
\* whose source is a valid IP is dispatched exactly once, with the bytes
\* from offset 8 as payload, the source address with the port of bytes 0-1
\* and an empty sender key; the IPv4 counter counts the dispatches with an
\* IPv4 source and the IPv6 counter all others, whatever the socket family.
C1_DispatchOncePerAcceptedRead ==
    /\ \A h \in Calls : \A i \in 1..Len(reads[h]) :
          LET r == reads[h][i] IN
          ( /\ Complete(h, i)
            /\ Len(r.buf) >= 8
            /\ r.snap # 0
            /\ r.buf[3] * 256 + r.buf[4] = r.snap
            /\ Len(r.src) \in {4, 16} )
          => /\ Cardinality(CallsFor(h, i)) = 1
             /\ \A j \in CallsFor(h, i) :
                   /\ dispatched[h][j].payload = SubSeq(r.buf, 9, Len(r.buf))
                   /\ dispatched[h][j].srcIP = r.src
                   /\ dispatched[h][j].srcPort = r.buf[1] * 256 + r.buf[2]
                   /\ dispatched[h][j].key = "zero"
    /\ metricRecvDiscoPacketIPv4 =
          Cardinality({c \in AllCalls : Len(dispatched[c[1]][c[2]].srcIP) = 4})
    /\ metricRecvDiscoPacketIPv6 =
          Cardinality({c \in AllCalls : Len(dispatched[c[1]][c[2]].srcIP) # 4})

\* C1 happens: the ip6 loop dispatched a packet with an IPv4 source and
\* the IPv4 counter counted it
C1_Witness ==
    \E h \in Calls :
        /\ rd[h].isIPV6
        /\ \E j \in 1..Len(dispatched[h]) : Len(dispatched[h][j].srcIP) = 4
        /\ metricRecvDiscoPacketIPv4 = 1
        /\ metricRecvDiscoPacketIPv6 = 0

\* C2: when listenRawDisco has returned an error, the raw socket and the
\* test socket it opened are closed and no receive loop was started; a
\* loop or an open raw socket after the call means it returned no error.
C2_ErrorReleasesEverything ==
    \A h \in Calls :
        lr[h].pc = "returned" =>
            /\ lr[h].ret # "ok" =>
                  /\ pconn[h].state # "open"
                  /\ tc[h] # "open"
                  /\ rd[h].state = "none"
            /\ (rd[h].state # "none" \/ pconn[h].state = "open") => lr[h].ret = "ok"

\* C2 happens: a failed self-test, with both sockets opened and closed
C2_Witness ==
    \E h \in Calls :
        /\ lr[h].ret = "reading during raw disco self-test"
        /\ pconn[h].state = "closed"
        /\ tc[h] = "closed"
        /\ rd[h].state = "none"

\* C3 (as claimed): once listenRawDisco is past the filter installation
\* with its raw socket still open, the filter is attached: a failed
\* attachment, a rejected setsockopt included, makes setBPF return an
\* error, so no self-test runs and no handle is returned without a filter.
C3_NoHandleWithoutFilter ==
    \A h \in Calls :
        (lr[h].pc \in {"testSocket", "write", "selfTest", "returned"} /\ pconn[h].state = "open")
            => pconn[h].filter

\* C4: a receive loop exists only for a call whose self-test read a packet
\* whose bytes after the UDP header equal the test packet; a call that
\* returned the self-test error saw no such packet, closed its raw socket
\* and started no loop.
C4_LoopOnlyAfterProbe ==
    \A h \in Calls :
        /\ (rd[h].state # "none" \/ lr[h].ret = "ok") => probeSeen[h]
        /\ lr[h].ret = "reading during raw disco self-test" =>
              /\ ~probeSeen[h]
              /\ pconn[h].state = "closed"
              /\ rd[h].state = "none"

\* C4 happens: the self-test skipped a foreign packet that had reached the
\* raw socket, then read the test packet, and the loop runs
C4_Witness ==
    \E h \in Calls :
        /\ rd[h].state = "Running"
        /\ probeSeen[h]
        /\ delivered >= 1
        /\ pconn[h].queue = <<>>
        /\ reads[h] = <<>>

\* C10: while a receive loop exists its open raw socket has no read
\* deadline: the deadline of the self-test was cleared before the loop was
\* started, so no read of the loop can time out.
C10_NoDeadlineWhileRunning ==
    \A h \in Calls :
        (rd[h].state # "none" /\ pconn[h].state = "open") => pconn[h].deadline = "none"

\* C10 happens: a running loop has read from the socket after the self-test
C10_Witness ==
    \E h \in Calls :
        /\ rd[h].state = "Running"
        /\ pconn[h].state = "open"
        /\ pconn[h].deadline = "none"
        /\ Len(reads[h]) >= 1

\* C5: once the handle is closed, a running receive loop eventually is
\* Stopped (handlers return, the scheduler runs the loop), and from the
\* close on the loop never logs "disco raw reader failed".
C5_CloseStopsQuietly ==
    /\ \A h \in Calls :
          (pconn[h].state = "closed" /\ rd[h].state = "Running") ~> (rd[h].state = "Stopped")
    /\ [][\A h \in Calls :
             pconn[h].state = "closed" => logs'[h].failed = logs[h].failed]_vars

\* C5 happens: a loop that had read packets was closed and has stopped
\* without a fault log
C5_Witness ==
    \E h \in Calls :
        /\ pconn[h].state = "closed"
        /\ rd[h].state = "Stopped"
        /\ logs[h].failed = 0
        /\ Len(reads[h]) >= 1

\* C6 (as claimed): no handleDiscoMessage call carries the test packet of
\* a self-test as its payload, whatever the bound port and whatever other
\* handles are running.
C6_ProbeNeverDispatched ==
    \A h \in Calls : \A j \in 1..Len(dispatched[h]) :
        dispatched[h][j].payload # testDiscoPacket

\* the port of the family of loop h
OwnPort(h) == boundPort[IF rd[h].isIPV6 THEN "ip6" ELSE "ip4"]

\* C7: the step that consults the bound port stores the port of the
\* loop's own family; the step after it decides on that stored value
\* alone, whatever the port is by then: a stored 0 or a destination port
\* different from it drops the packet with no handler call and no counter
\* change and leaves the loop Running at its next read, and a packet whose
\* destination port equals the stored non-zero value is not dropped as a
\* port mismatch.
C7_PortSnapshotDecides ==
    [][\A h \in Calls :
          /\ (rd[h].state = "Running" /\ rd[h].pc = "port" /\ rd'[h] # rd[h]) =>
                /\ rd'[h].pc = "check"
                /\ rd'[h].acceptPort = OwnPort(h)
          /\ (rd[h].state = "Running" /\ rd[h].pc # "port") =>
                rd'[h].acceptPort \in {rd[h].acceptPort, 0}
          /\ ( /\ rd[h].state = "Running" /\ rd[h].pc = "check" /\ rd'[h] # rd[h]
               /\ (rd[h].acceptPort = 0 \/ rd[h].dstPort # rd[h].acceptPort) ) =>
                /\ rd'[h].state = "Running"
                /\ rd'[h].pc = "read"
                /\ dispatched' = dispatched
                /\ metricRecvDiscoPacketIPv4' = metricRecvDiscoPacketIPv4
                /\ metricRecvDiscoPacketIPv6' = metricRecvDiscoPacketIPv6
          /\ ( /\ rd[h].state = "Running" /\ rd[h].pc = "check" /\ rd'[h] # rd[h]
               /\ rd[h].acceptPort # 0 /\ rd[h].dstPort = rd[h].acceptPort ) =>
                logs'[h].dropped = logs[h].dropped
      ]_vars

\* C7 happens: the loop dropped a packet for its port, is Running at its
\* next read, and the port it had read is no longer the bound port
C7_Witness ==
    \E h \in Calls :
        /\ rd[h].state = "Running"
        /\ rd[h].pc = "read"
        /\ Len(reads[h]) >= 1
        /\ reads[h][Len(reads[h])].snap \notin {-1, OwnPort(h)}
        /\ logs[h].dropped >= 1
        /\ dispatched[h] = <<>>
        /\ metricRecvDiscoPacketIPv4 + metricRecvDiscoPacketIPv6 = 0

\* C8: a read of fewer than 8 bytes changes nothing but the socket: no
\* handler call, no counter, no log, the bound port is never consulted
\* for it, and the loop is Running at its next read.
C8_ShortReadDropped ==
    /\ [](\A h \in Calls : \A i \in 1..Len(reads[h]) :
             Len(reads[h][i].buf) < 8 =>
                 (reads[h][i].snap = -1 /\ CallsFor(h, i) = {}))
    /\ [][\A h \in Calls :
             ( /\ Len(reads'[h]) = Len(reads[h]) + 1
               /\ Len(reads'[h][Len(reads'[h])].buf) < 8 ) =>
                 /\ rd[h].state = "Running"
                 /\ rd[h].pc = "read"
                 /\ rd'[h] = rd[h]
                 /\ dispatched' = dispatched
                 /\ logs' = logs
                 /\ metricRecvDiscoPacketIPv4' = metricRecvDiscoPacketIPv4
                 /\ metricRecvDiscoPacketIPv6' = metricRecvDiscoPacketIPv6
      ]_vars

\* C8 happens: a running loop has read a packet of fewer than 8 bytes
C8_Witness ==
    \E h \in Calls :
        /\ rd[h].state = "Running"
        /\ rd[h].pc = "read"
        /\ \E i \in 1..Len(reads[h]) : Len(reads[h][i].buf) < 8

\* C9: the handler calls of a loop are for reads of that loop, carry the
\* bytes of that read, follow the order of the reads with no read used
\* twice, and never overlap: a call begins only after the one before has
\* returned, and no read is made while a call is in progress.
C9_DispatchInReadOrder ==
    \A h \in Calls :
        /\ \A j \in 1..Len(dispatched[h]) :
              /\ dispatched[h][j].read \in 1..Len(reads[h])
              /\ dispatched[h][j].payload =
                    SubSeq(reads[h][dispatched[h][j].read].buf, 9,
                           Len(reads[h][dispatched[h][j].read].buf))
        /\ \A j, k \in 1..Len(dispatched[h]) :
              j < k => dispatched[h][j].read < dispatched[h][k].read
        /\ Len(dispatched[h]) - returned[h] \in {0, 1}
        /\ Len(dispatched[h]) - returned[h] = 1 =>
              dispatched[h][Len(dispatched[h])].read = Len(reads[h])

\* C9 happens: a loop has made two handler calls and both have returned
C9_Witness ==
    \E h \in Calls : Len(dispatched[h]) = 2 /\ returned[h] = 2

\* the flags / fragment-offset field of an IPv4 packet (bytes 6 and 7)
FragField(buf) == buf[7] * 256 + buf[8]

\* the more-fragments bit is set, or the fragment offset is not zero
Fragmented(buf) == (FragField(buf) \div 8192) % 2 = 1 \/ FragField(buf) % 8192 # 0

\* the six bytes of buf from offset off are there and are the marker
MarkerAt(buf, off) ==
    /\ off + 6 <= Len(buf)
    /\ \A k \in 1..6 : buf[off + k] = discoMagic[k]

\* C11: the IPv4 program returns 0 on every buffer whose flags /
\* fragment-offset field has the more-fragments bit or any offset bit set,
\* whatever the header length and the bytes after it.
C11_FragmentsDropped ==
    ( /\ filt.family = "ip4"
      /\ Len(filt.buf) >= 8
      /\ Fragmented(filt.buf) )
    => filt.out = <<0, 0>>

\* C11 happens: a last fragment (offset bits set, more-fragments clear)
\* with one option word and the exact marker after the UDP header was
\* evaluated and dropped
C11_Witness ==
    /\ filt.family = "ip4"
    /\ Len(filt.buf) >= 8
    /\ FragField(filt.buf) = 1
    /\ filt.buf[1] % 16 = 6
    /\ MarkerAt(filt.buf, 24 + 8)
    /\ filt.out = <<0, 0>>

\* C12: on an unfragmented packet the IPv4 program returns non-zero
\* exactly when the six bytes at offset 4 * (byte 0 mod 16) + 8 are the
\* marker; the IPv6 program returns non-zero exactly when the six bytes at
\* offset 8 are the marker.  One differing byte, or a buffer that ends
\* inside the six bytes, gives 0.
C12_AcceptsExactlyTheMarker ==
    /\ ( /\ filt.family = "ip4"
         /\ Len(filt.buf) >= 8
         /\ ~Fragmented(filt.buf) )
       => (filt.out # <<0, 0>> <=> MarkerAt(filt.buf, 4 * (filt.buf[1] % 16) + 8))
    /\ filt.family = "ip6"
       => (filt.out # <<0, 0>> <=> MarkerAt(filt.buf, 8))

\* C12 happens: the IPv6 program dropped a buffer whose first four marker
\* bytes match and whose sixth differs
C12_Witness ==
    /\ filt.family = "ip6"
    /\ Len(filt.buf) >= 14
    /\ \A k \in 1..5 : filt.buf[8 + k] = discoMagic[k]
    /\ filt.buf[8 + 6] # discoMagic[6]
    /\ filt.out = <<0, 0>>

\* C12 also happens the other way: the IPv4 program accepted an
\* unfragmented packet with 15 header words and the marker after them
C12_AcceptWitness ==
    /\ filt.family = "ip4"
    /\ Len(filt.buf) >= 8
    /\ filt.buf[1] % 16 = 15
    /\ filt.out = <<65535, 65535>>

\* call h was made and left nothing behind: no raw socket (so no filter on
\* one), no test socket (so no test packet), no receive loop
NothingDone(h) ==
    /\ lr[h].pc = "returned"
    /\ pconn[h] = NoSocket
    /\ tc[h] = "none"
    /\ rd[h] = NoLoop
    /\ ~probeSeen[h]
    /\ reads[h] = <<>>

\* C13: a call made with the debug knob set returns the "disabled by debug
\* flag" error, a call made without SO_MARK (and the knob not set) returns
\* the "SO_MARK unavailable" error, and neither does anything else.
C13_DisabledDoesNothing ==
    \A h \in Calls :
        ( /\ lr[h].pc # "idle"
          /\ given[h].disabled \/ ~given[h].useSocketMark )
        => /\ NothingDone(h)
           /\ given[h].disabled => lr[h].ret = "disabled by debug flag"
           /\ ~given[h].disabled => lr[h].ret = "SO_MARK unavailable"

\* C13 happens: a call for ip4 without SO_MARK, the knob not set, has
\* returned the "SO_MARK unavailable" error
C13_Witness ==
    \E h \in Calls :
        /\ given[h].family = "ip4"
        /\ ~given[h].disabled
        /\ ~given[h].useSocketMark
        /\ lr[h].ret = "SO_MARK unavailable"

\* C14 as stated: every call with a family other than "ip4" and "ip6"
\* returns the "unsupported address family" error and does nothing else.
C14_UnsupportedFamilyError ==
    \A h \in Calls :
        ( /\ lr[h].pc # "idle"
          /\ given[h].family \notin {"ip4", "ip6"} )
        => /\ NothingDone(h)
           /\ lr[h].ret = "unsupported address family"

\* C14, amended: a call with a family other than "ip4" and "ip6" does
\* nothing and returns an error at once; the error is "unsupported address
\* family" when the debug knob is not set and SO_MARK is available, and
\* the error of the knob or of SO_MARK otherwise, those being checked first.
C14_UnsupportedFamilyAfterEntryChecks ==
    \A h \in Calls :
        ( /\ lr[h].pc # "idle"
          /\ given[h].family \notin {"ip4", "ip6"} )
        => /\ NothingDone(h)
           /\ lr[h].ret =
                 IF given[h].disabled THEN "disabled by debug flag"
                 ELSE IF ~given[h].useSocketMark THEN "SO_MARK unavailable"
                 ELSE "unsupported address family"

\* C14 happens: a call for "ip5" with the knob not set and SO_MARK
\* available has returned the "unsupported address family" error
C14_Witness ==
    \E h \in Calls :
        /\ given[h].family = "ip5"
        /\ ~given[h].disabled
        /\ given[h].useSocketMark
        /\ lr[h].ret = "unsupported address family"

\* C15: a receive loop is Running from its start and then Stopped for
\* good.  It leaves Running only at its read, when the read returns an
\* error and no packet: silently when the socket was closed, with exactly
\* one "failed" log otherwise.  A Stopped loop reads, dispatches, logs and
\* counts nothing and never runs again.  A read that returns a packet and
\* a drop (port check or bad source) leave the loop Running.
C15_StoppedIsTerminal ==
    /\ [](\A h \in Calls : rd[h].state \in {"none", "Running", "Stopped"})
    /\ [][\A h \in Calls :
             /\ rd[h].state = "none" /\ rd'[h].state # "none" => rd'[h].state = "Running"
             /\ rd[h].state = "Stopped" =>
                   /\ rd'[h] = rd[h]
                   /\ reads'[h] = reads[h]
                   /\ dispatched'[h] = dispatched[h]
                   /\ returned'[h] = returned[h]
                   /\ logs'[h] = logs[h]
             /\ (\A g \in Calls : rd[g].state # "Running") =>
                   /\ metricRecvDiscoPacketIPv4' = metricRecvDiscoPacketIPv4
                   /\ metricRecvDiscoPacketIPv6' = metricRecvDiscoPacketIPv6
             /\ rd[h].state = "Running" /\ rd'[h].state # "Running" =>
                   /\ rd'[h].state = "Stopped"
                   /\ rd[h].pc = "read"
                   /\ reads'[h] = reads[h]
                   /\ dispatched'[h] = dispatched[h]
                   /\ logs'[h] = IF pconn[h].state = "closed"
                                 THEN logs[h]
                                 ELSE [logs[h] EXCEPT !.failed = @ + 1]
             /\ ( \/ Len(reads'[h]) > Len(reads[h])
                  \/ logs'[h].dropped > logs[h].dropped
                  \/ logs'[h].notIP > logs[h].notIP ) => rd'[h].state = "Running"
      ]_vars

\* C15 happens: a loop dropped one packet at the port check and one for
\* its bad source, kept running, and then stopped with one "failed" log
\* on a read error of its open socket
C15_Witness ==
    \E h \in Calls :
        /\ rd[h].state = "Stopped"
        /\ pconn[h].state = "open"
        /\ logs[h] = [failed |-> 1, port0 |-> 0, notIP |-> 1, dropped |-> 1]
        /\ Len(reads[h]) = 2

\* the reads of loop h that returned at least 8 bytes with destination
\* port (bytes 2-3) zero
PortZeroReads(h) ==
    {i \in 1..Len(reads[h]) :
        Len(reads[h][i].buf) >= 8 /\ reads[h][i].buf[3] * 256 + reads[h][i].buf[4] = 0}

\* C16 as stated: a read of at least 8 bytes for port 0 (from a valid
\* source) is logged as unexpected and still processed: once the loop is
\* done with it, the handler has been called for it.
C16_PortZeroStillProcessed ==
    \A h \in Calls : \A i \in PortZeroReads(h) :
        (Complete(h, i) /\ Len(reads[h][i].src) \in {4, 16}) =>
            /\ logs[h].port0 >= 1
            /\ CallsFor(h, i) # {}

\* C16, amended: a read of at least 8 bytes for port 0 is logged as
\* unexpected, once, and is not dropped at that point: the loop goes on
\* to read the bound port.  The port checks that follow then drop it, so
\* the handler is never called for it.
C16_PortZeroLoggedThenDropped ==
    /\ [](\A h \in Calls :
             /\ logs[h].port0 = Cardinality(PortZeroReads(h))
             /\ \A i \in PortZeroReads(h) :
                   Complete(h, i) =>
                       /\ reads[h][i].snap # -1
                       /\ CallsFor(h, i) = {}
                       /\ logs[h].dropped >= 1)
    /\ [][\A h \in Calls :
             ( /\ Len(reads'[h]) = Len(reads[h]) + 1
               /\ Len(reads'[h]) \in PortZeroReads(h)' ) =>
                 /\ logs'[h] = [logs[h] EXCEPT !.port0 = @ + 1]
                 /\ rd'[h].state = "Running"
                 /\ rd'[h].pc = "port"
      ]_vars

\* C16 happens: a loop whose bound port is 4000 read a packet for port 0
\* from a valid source, logged it, read the bound port, dropped the
\* packet and is at its next read
C16_Witness ==
    \E h \in Calls :
        /\ rd[h].state = "Running"
        /\ rd[h].pc = "read"
        /\ Len(reads[h]) = 1
        /\ PortZeroReads(h) = {1}
        /\ Len(reads[h][1].src) = 4
        /\ reads[h][1].snap = 4000
        /\ logs[h] = [failed |-> 0, port0 |-> 1, notIP |-> 0, dropped |-> 1]
        /\ dispatched[h] = <<>>

\* C17: a call that has entered the self-test loop returns.  Inside the
\* loop a deadline is on the socket and is never cleared or moved (it can
\* only pass); a read that returns a short or non-matching packet leaves
\* the call in the loop; and once the deadline has passed, the next read
\* ends the call with the self-test error, packets queued or not.
C17_SelfTestTerminates ==
    /\ \A h \in Calls : (lr[h].pc = "selfTest") ~> (lr[h].pc = "returned")
    /\ [][\A h \in Calls :
             lr[h].pc = "selfTest" =>
                 /\ pconn[h].deadline \in {"armed", "expired"}
                 /\ lr'[h].pc = "selfTest" =>
                       pconn'[h].deadline \in {pconn[h].deadline, "expired"}
                 /\ lr'[h].pc # "selfTest" =>
                       /\ lr'[h].pc = "returned"
                       /\ lr'[h].ret \in {"ok", "reading during raw disco self-test"}
                 /\ ( /\ pconn[h].deadline = "expired"
                      /\ lr'[h] # lr[h] \/ Len(pconn'[h].queue) < Len(pconn[h].queue) )
                    => lr'[h].ret = "reading during raw disco self-test"
      ]_vars

\* C17 happens: a call got a packet from another host on its raw socket
\* and ended with the self-test error, its sockets closed
C17_Witness ==
    \E h \in Calls :
        /\ lr[h].pc = "returned"
        /\ lr[h].ret = "reading during raw disco self-test"
        /\ pconn[h].state = "closed"
        /\ tc[h] = "closed"
        /\ delivered >= 1
        /\ ~probeSeen[h]

\* C18: while the filter setBPF attached is on the open raw socket of a
\* call, every payload its receive loop has handed to the handler begins
\* with the six marker bytes.
C18_DispatchedHasMarker ==
    \A h \in Calls :
        (pconn[h].state = "open" /\ pconn[h].filter) =>
            \A j \in 1..Len(dispatched[h]) : MarkerAt(dispatched[h][j].payload, 0)

\* C19: once Close has returned, the loop of the handle makes no further
\* successful read and begins at most one further handler call, which is
\* for the last read made before the close; every read it makes after the
\* close ends it, silently.
C19_OneDispatchAfterClose ==
    /\ [](\A h \in Calls :
             closedAt[h].reads >= 0 =>
                 /\ Len(reads[h]) = closedAt[h].reads
                 /\ Len(dispatched[h]) <= closedAt[h].dispatched + 1
                 /\ Len(dispatched[h]) = closedAt[h].dispatched + 1 =>
                       dispatched[h][Len(dispatched[h])].read = closedAt[h].reads)
    /\ [][\A h \in Calls :
             ( /\ closedAt[h].reads >= 0
               /\ rd[h].state = "Running"
               /\ rd[h].pc = "read"
               /\ rd'[h] # rd[h] ) =>
                 /\ rd'[h].state = "Stopped"
                 /\ logs'[h] = logs[h]
      ]_vars

\* C19 happens: Close returned while the loop held a packet it had read,
\* the loop then called the handler for it, and stopped at its next read
C19_Witness ==
    \E h \in Calls :
        /\ closedAt[h].dispatched = 0
        /\ Len(dispatched[h]) = 1
        /\ returned[h] = 1
        /\ rd[h].state = "Stopped"
        /\ logs[h].failed = 0

\* C20: whatever the bound port, the handler is never called for a read
\* whose destination port is zero and the counters never count one: the
\* step that checks such a read against the port snapshot, zero or not,
\* logs a drop and returns the loop to its read.
C20_PortZeroNeverDispatched ==
    /\ [](\A h \in Calls :
             /\ \A i \in PortZeroReads(h) : CallsFor(h, i) = {}
             /\ \A j \in 1..Len(dispatched[h]) : dispatched[h][j].read \notin PortZeroReads(h))
    /\ [](metricRecvDiscoPacketIPv4 + metricRecvDiscoPacketIPv6 =
             Cardinality({c \in AllCalls : dispatched[c[1]][c[2]].read \notin PortZeroReads(c[1])}))
    /\ [][\A h \in Calls :
             ( /\ rd[h].state = "Running"
               /\ rd[h].pc = "check"
               /\ Len(reads[h]) \in PortZeroReads(h)
               /\ rd'[h] # rd[h] ) =>
                 /\ rd'[h].state = "Running"
                 /\ rd'[h].pc = "read"
                 /\ logs'[h] = [logs[h] EXCEPT !.dropped = @ + 1]
                 /\ dispatched' = dispatched
                 /\ metricRecvDiscoPacketIPv4' = metricRecvDiscoPacketIPv4
                 /\ metricRecvDiscoPacketIPv6' = metricRecvDiscoPacketIPv6
      ]_vars

\* C20 happens: the family was unbound (port 0) when the loop read its
\* port for a packet for port 0 from a valid source, and the packet was
\* dropped
C20_Witness ==
    \E h \in Calls :
        /\ 1 \in PortZeroReads(h)
        /\ Complete(h, 1)
        /\ Len(reads[h][1].src) = 4
        /\ reads[h][1].snap = 0
        /\ logs[h].dropped = 1
        /\ dispatched[h] = <<>>
        /\ metricRecvDiscoPacketIPv4 + metricRecvDiscoPacketIPv6 = 0

====
